---- MODULE Spec2Model ----
(***************************************************************************)
(* unusedargs: the command that reports unused receivers and parameters.   *)
(*                                                                         *)
(* The model follows handleFiles (src/unusedargs.go) and usages.Find /     *)
(* makeResult (src/unnamed/part_003).  Source files are given as parsed    *)
(* syntax trees with positions; go/parser and go/types are collaborators   *)
(* whose answers (the tree of a file, the Uses mapping of a package) are   *)
(* computed from the trees below.  Positions are those of the files as     *)
(* written (no //line directives).                                         *)
(***************************************************************************)
EXTENDS Integers, Sequences, FiniteSets, TLC

\* Bounds of the model.
MaxFiles == 2   \* files given to one handleFiles call

(***************************************************************************)
(* Strings.  Go compares strings bytewise; Bytes gives the bytes of the    *)
(* file paths and package names that are compared.                         *)
(***************************************************************************)
Bytes(s) ==
  CASE s = "testdata/pkg1/pkg1.go" -> <<116, 101, 115, 116, 100, 97, 116, 97, 47, 112, 107, 103, 49, 47, 112, 107, 103, 49, 46, 103, 111>>
    [] s = "testdata/pkg1/pkg1_test.go" -> <<116, 101, 115, 116, 100, 97, 116, 97, 47, 112, 107, 103, 49, 47, 112, 107, 103, 49, 95, 116, 101, 115, 116, 46, 103, 111>>
    [] s = "testdata/pkg1/ext_test.go" -> <<116, 101, 115, 116, 100, 97, 116, 97, 47, 112, 107, 103, 49, 47, 101, 120, 116, 95, 116, 101, 115, 116, 46, 103, 111>>
    [] s = "testdata/pkg1/generated.go" -> <<116, 101, 115, 116, 100, 97, 116, 97, 47, 112, 107, 103, 49, 47, 103, 101, 110, 101, 114, 97, 116, 101, 100, 46, 103, 111>>
    [] s = "testdata/pkg2/pkg2.go" -> <<116, 101, 115, 116, 100, 97, 116, 97, 47, 112, 107, 103, 50, 47, 112, 107, 103, 50, 46, 103, 111>>
    [] s = "testdata/pkg3/methods.go" -> <<116, 101, 115, 116, 100, 97, 116, 97, 47, 112, 107, 103, 51, 47, 109, 101, 116, 104, 111, 100, 115, 46, 103, 111>>
    [] s = "testdata/pkg3/broken.go" -> <<116, 101, 115, 116, 100, 97, 116, 97, 47, 112, 107, 103, 51, 47, 98, 114, 111, 107, 101, 110, 46, 103, 111>>
    [] s = "testdata/pkg3/missing.go" -> <<116, 101, 115, 116, 100, 97, 116, 97, 47, 112, 107, 103, 51, 47, 109, 105, 115, 115, 105, 110, 103, 46, 103, 111>>
    [] s = "testdata/pkg4/typeerr.go" -> <<116, 101, 115, 116, 100, 97, 116, 97, 47, 112, 107, 103, 52, 47, 116, 121, 112, 101, 101, 114, 114, 46, 103, 111>>
    [] s = "testdata/pkg5/none.go" -> <<116, 101, 115, 116, 100, 97, 116, 97, 47, 112, 107, 103, 53, 47, 110, 111, 110, 101, 46, 103, 111>>
    [] s = "pkg1" -> <<112, 107, 103, 49>>
    [] s = "pkg1_test" -> <<112, 107, 103, 49, 95, 116, 101, 115, 116>>
    [] s = "pkg2" -> <<112, 107, 103, 50>>
    [] s = "pkg3" -> <<112, 107, 103, 51>>
    [] s = "pkg4" -> <<112, 107, 103, 52>>
    [] s = "pkg5" -> <<112, 107, 103, 53>>
    [] OTHER -> <<>>

\* a < b on byte sequences: the first differing byte decides, a proper
\* prefix is smaller.
RECURSIVE BytesLessFrom(_, _, _)
BytesLessFrom(a, b, k) ==
  IF k > Len(b) THEN FALSE
  ELSE IF k > Len(a) THEN TRUE
  ELSE IF a[k] # b[k] THEN a[k] < b[k]
  ELSE BytesLessFrom(a, b, k + 1)

BytesLess(a, b) == BytesLessFrom(a, b, 1)

\* Go's a < b on strings.
StrLess(a, b) == BytesLess(Bytes(a), Bytes(b))

\* bytes.HasPrefix / bytes.HasSuffix, on a line given as a sequence of pieces.
HasPrefix(b, p) == Len(b) >= Len(p) /\ SubSeq(b, 1, Len(p)) = p
HasSuffix(b, p) == Len(b) >= Len(p) /\ SubSeq(b, Len(b) - Len(p) + 1, Len(b)) = p

(***************************************************************************)
(* Syntax trees (go/ast) and positions (go/token).                         *)
(***************************************************************************)
\* token.Position
Position(file, line, col) == [Filename |-> file, Line |-> line, Column |-> col]

\* fset.Position(token.NoPos): the zero Position.
NoPosition == Position("", 0, 0)

\* *ast.Ident
Id(name, line, col) == [Name |-> name, Line |-> line, Col |-> col]

\* *ast.Field: the names it declares and its type expression.  Expr is the
\* kind of the type expression; Str is what types.Type.String() gives for
\* it when the checker recorded a type for the expression.
Fld(names, expr, str) == [Names |-> names, Type |-> [Expr |-> expr, Str |-> str]]

\* Statements of a body, reduced to what binds or refers to a name.
Use(name, line, col) ==
  [Node |-> "Ident", Name |-> name, Line |-> line, Col |-> col, Params |-> <<>>, Body |-> <<>>]
Var(name, line, col) ==
  [Node |-> "Var", Name |-> name, Line |-> line, Col |-> col, Params |-> <<>>, Body |-> <<>>]
Block(body) ==
  [Node |-> "Block", Name |-> "", Line |-> 0, Col |-> 0, Params |-> <<>>, Body |-> body]
\* *ast.FuncLit: Line, Col is c.Pos(), the position of its func keyword.
FuncLit(line, col, params, body) ==
  [Node |-> "FuncLit", Name |-> "", Line |-> line, Col |-> col, Params |-> params, Body |-> body]

\* *ast.FuncDecl: Name is c.Name (with its position), Recv is <<>> for nil.
FuncDecl(name, recv, params, results, body) ==
  [Node |-> "FuncDecl", Name |-> name, Recv |-> recv, Params |-> params,
   Results |-> results, Body |-> body]

(***************************************************************************)
(* The source files the command is run on.                                 *)
(***************************************************************************)
\* src/testdata/pkg1/pkg1.go
Pkg1Decls ==
  << FuncDecl(Id("BlankParam", 5, 6), <<>>, <<Fld(<<Id("_", 5, 17)>>, "Ident", "string")>>, <<>>, <<>>),
     FuncDecl(Id("UnnamedParam", 6, 6), <<>>, <<Fld(<<>>, "Ident", "string")>>, <<>>, <<>>),
     FuncDecl(Id("BlankRecv", 7, 13), <<Fld(<<Id("_", 7, 7)>>, "StarExpr", "*T")>>,
              <<Fld(<<Id("_", 7, 23)>>, "Ident", "string")>>, <<>>, <<>>),
     FuncDecl(Id("UnnamedRecv", 8, 11), <<Fld(<<>>, "StarExpr", "*T")>>,
              <<Fld(<<Id("_", 8, 23)>>, "Ident", "string")>>, <<>>, <<>>),
     FuncDecl(Id("VarArgsUnused", 10, 6), <<>>,
              <<Fld(<<Id("x", 10, 20), Id("y", 10, 23)>>, "Ident", "int"),
                Fld(<<Id("s", 10, 30)>>, "Ellipsis", "string")>>, <<>>,
              <<Use("x", 10, 52), Use("y", 10, 55)>>),
     FuncDecl(Id("VarArgsUsed", 11, 6), <<>>,
              <<Fld(<<Id("x", 11, 18), Id("y", 11, 21)>>, "Ident", "int"),
                Fld(<<Id("s", 11, 28)>>, "Ellipsis", "string")>>, <<>>,
              <<Use("x", 11, 55), Use("y", 11, 58), Use("s", 11, 61)>>),
     FuncDecl(Id("RegularArgsUnused", 12, 6), <<>>,
              <<Fld(<<Id("x", 12, 24), Id("y", 12, 27)>>, "Ident", "int")>>, <<>>,
              <<Use("x", 12, 49)>>),
     FuncDecl(Id("NakedReturnUnused", 14, 6), <<>>,
              <<Fld(<<Id("x", 14, 24)>>, "Ident", "int")>>,
              <<Fld(<<Id("y", 14, 32)>>, "Ident", "int")>>, <<>>),
     FuncDecl(Id("FuncLiteral", 18, 6), <<>>, <<>>, <<>>,
              <<FuncLit(19, 5, <<Fld(<<Id("x", 19, 10)>>, "Ident", "int")>>, <<>>),
                FuncLit(21, 6, <<Fld(<<Id("y", 21, 11)>>, "Ident", "int")>>, <<>>)>>),
     FuncDecl(Id("ScopeUnused", 25, 6), <<>>,
              <<Fld(<<Id("n", 25, 18)>>, "Ident", "string")>>, <<>>,
              <<Block(<<Var("n", 27, 7), Use("println", 28, 3), Use("n", 28, 11)>>),
                Block(<<Var("n", 31, 7), Use("println", 32, 3), Use("n", 32, 11)>>)>>),
     FuncDecl(Id("ScopeUsed", 36, 6), <<>>,
              <<Fld(<<Id("n", 36, 16)>>, "Ident", "string")>>, <<>>,
              <<Block(<<Var("n", 38, 7), Use("println", 39, 3), Use("n", 39, 11)>>),
                Block(<<Var("n", 42, 7), Use("println", 43, 3), Use("n", 43, 11)>>),
                Use("println", 45, 2), Use("n", 45, 10)>>) >>

\* testdata/pkg1/pkg1_test.go and testdata/pkg1/ext_test.go, from the lines
\* the test expects of them: func bar(x int) {} on line 3.
BarDecls ==
  << FuncDecl(Id("bar", 3, 6), <<>>, <<Fld(<<Id("x", 3, 10)>>, "Ident", "int")>>, <<>>, <<>>) >>

\* testdata/pkg2/pkg2.go: func qux(x int) {} on line 3.
QuxDecls ==
  << FuncDecl(Id("qux", 3, 6), <<>>, <<Fld(<<Id("x", 3, 10)>>, "Ident", "int")>>, <<>>, <<>>) >>

\* testdata/pkg1/generated.go: a generated file with an unused parameter and
\* an unused parameter of a function literal:
\*   func gen(x int) {
\*       _ = func(z int) {}
\*   }
GeneratedDecls ==
  << FuncDecl(Id("gen", 5, 6), <<>>, <<Fld(<<Id("x", 5, 10)>>, "Ident", "int")>>, <<>>,
              <<FuncLit(6, 6, <<Fld(<<Id("z", 6, 11)>>, "Ident", "int")>>, <<>>)>>) >>

\* A file with a method whose receiver and parameter are both unused, a
\* function whose parameter p is referred to only inside a nested literal,
\* and a function with parameters of type context.Context:
\*   func (r *R) Two(a int) {}
\*   func Outer(p int) {
\*       _ = func(q int) { _ = p }
\*   }
\*   func Ctx(c context.Context, _ int) {}
MethodsDecls ==
  << FuncDecl(Id("Two", 5, 13), <<Fld(<<Id("r", 5, 7)>>, "StarExpr", "*R")>>,
              <<Fld(<<Id("a", 5, 17)>>, "Ident", "int")>>, <<>>, <<>>),
     FuncDecl(Id("Outer", 7, 6), <<>>, <<Fld(<<Id("p", 7, 12)>>, "Ident", "int")>>, <<>>,
              <<FuncLit(8, 6, <<Fld(<<Id("q", 8, 11)>>, "Ident", "int")>>,
                        <<Use("p", 8, 24)>>)>>),
     FuncDecl(Id("Ctx", 11, 6), <<>>,
              <<Fld(<<Id("c", 11, 10)>>, "SelectorExpr", "context.Context"),
                Fld(<<Id("_", 11, 29)>>, "Ident", "int")>>, <<>>, <<>>) >>

\* A file that does not type check: undefined is not declared.
\*   func h(v int) { undefined(v) }
\*   func k(w int) {}
TypeErrDecls ==
  << FuncDecl(Id("h", 3, 6), <<>>, <<Fld(<<Id("v", 3, 8)>>, "Ident", "int")>>, <<>>,
              <<Use("undefined", 3, 17), Use("v", 3, 27)>>),
     FuncDecl(Id("k", 5, 6), <<>>, <<Fld(<<Id("w", 5, 8)>>, "Ident", "int")>>, <<>>, <<>>) >>

\* A file whose functions declare no named input: no parameter, a receiver
\* given by its type only, a blank parameter.
\*   func f() {}
\*   func (T) m(_ int) {}
NoneDecls ==
  << FuncDecl(Id("f", 3, 6), <<>>, <<>>, <<>>, <<>>),
     FuncDecl(Id("m", 5, 10), <<Fld(<<>>, "Ident", "T")>>,
              <<Fld(<<Id("_", 5, 12)>>, "Ident", "int")>>, <<>>, <<>>) >>

\* The lines of a file as isGenerated reads them, each a sequence of pieces.
PlainSrc(pkg) == << <<"package ", pkg>> >>

File(path, pkg, readable, parses, checks, src, decls) ==
  [Path |-> path, Pkg |-> pkg, Readable |-> readable, Parses |-> parses,
   Checks |-> checks, Src |-> src, Decls |-> decls]

Catalogue ==
  { File("testdata/pkg1/pkg1.go", "pkg1", TRUE, TRUE, TRUE, PlainSrc("pkg1"), Pkg1Decls),
    File("testdata/pkg1/pkg1_test.go", "pkg1", TRUE, TRUE, TRUE, PlainSrc("pkg1"), BarDecls),
    File("testdata/pkg1/ext_test.go", "pkg1_test", TRUE, TRUE, TRUE, PlainSrc("pkg1_test"), BarDecls),
    File("testdata/pkg1/generated.go", "pkg1", TRUE, TRUE, TRUE,
         << <<"// Copyright">>,
            <<"// Code generated", " ", "by tool.", " ", "DO NOT EDIT.">>,
            <<"package ", "pkg1">> >>, GeneratedDecls),
    File("testdata/pkg2/pkg2.go", "pkg2", TRUE, TRUE, TRUE, PlainSrc("pkg2"), QuxDecls),
    File("testdata/pkg3/methods.go", "pkg3", TRUE, TRUE, TRUE,
         << <<"// Code generated", " ", "DO NOT EDIT.">>, <<"package ", "pkg3">> >>,
         MethodsDecls),
    File("testdata/pkg3/broken.go", "pkg3", TRUE, FALSE, TRUE, << <<"package ">> >>, <<>>),
    File("testdata/pkg3/missing.go", "pkg3", FALSE, TRUE, TRUE, <<>>, <<>>),
    File("testdata/pkg4/typeerr.go", "pkg4", TRUE, TRUE, FALSE, PlainSrc("pkg4"), TypeErrDecls),
    File("testdata/pkg5/none.go", "pkg5", TRUE, TRUE, TRUE, PlainSrc("pkg5"), NoneDecls) }

Paths == {f.Path : f \in Catalogue}

FileAt(path) == CHOOSE f \in Catalogue : f.Path = path

(***************************************************************************)
(* isGenerated (src/unusedargs.go)                                         *)
(***************************************************************************)
genHdr == <<"// Code generated", " ">>
genFtr == <<" ", "DO NOT EDIT.">>

\* Some line has the header as prefix and the footer as suffix and is long
\* enough to hold both.
isGenerated(src) ==
  \E k \in 1..Len(src) :
    /\ HasPrefix(src[k], genHdr)
    /\ HasSuffix(src[k], genFtr)
    /\ Len(src[k]) >= Len(genHdr) + Len(genFtr)

(***************************************************************************)
(* Package usages (src/unnamed/part_003)                                   *)
(***************************************************************************)
FuncReceiver == "receiver"
FuncParam == "param"

\* FuncInput with the position of the field (its first name) instead of
\* the position of the name.
FuncInputAtField(name, fld, kind) ==
  [ident |-> name, field |-> fld, kind |-> kind,
   pos |-> [Line |-> fld.Names[1].Line, Col |-> fld.Names[1].Col]]

\* The funcInput of one name of a field.
FuncInput(name, fld, kind) ==
  [ident |-> name, field |-> fld, kind |-> kind, pos |-> [Line |-> name.Line, Col |-> name.Col]]

\* FieldInputs that makes an input of a field without names.
FieldInputsOrType(fld, kind) ==
  IF fld.Names = <<>> THEN <<FuncInput(Id("", 0, 0), fld, kind)>>
  ELSE [k \in 1..Len(fld.Names) |-> FuncInput(fld.Names[k], fld, kind)]

\* for _, name := range field.Names { inp = append(inp, funcInput{...}) }
FieldInputs(fld, kind) ==
  [k \in 1..Len(fld.Names) |-> FuncInput(fld.Names[k], fld, kind)]

RECURSIVE FieldListInputs(_, _)
FieldListInputs(list, kind) ==
  IF list = <<>> THEN <<>>
  ELSE FieldInputs(Head(list), kind) \o FieldListInputs(Tail(list), kind)

\* inputs: the receiver's names, then the parameters' names, in order.
inputs(recv, params) ==
  FieldListInputs(recv, FuncReceiver) \o FieldListInputs(params, FuncParam)

\* isBlankIdent that takes the empty name for the blank one.
isBlankIdentEmpty(name) == name.Name = ""

isBlankIdent(name) == name.Name = "_"

\* The function literals of a body in the order ast.Inspect visits them.
RECURSIVE FuncLitsIn(_)
FuncLitsIn(stmts) ==
  IF stmts = <<>> THEN <<>>
  ELSE LET s == Head(stmts)
       IN  (IF s.Node = "FuncLit" THEN <<s>> ELSE <<>>)
             \o FuncLitsIn(s.Body) \o FuncLitsIn(Tail(stmts))

RECURSIVE FuncNodes(_)
\* The function declarations and literals of a file in visiting order.
FuncNodes(decls) ==
  IF decls = <<>> THEN <<>>
  ELSE <<Head(decls)>> \o FuncLitsIn(Head(decls).Body) \o FuncNodes(Tail(decls))

\* FuncInputsOf that takes the results of a declaration for params as well.
FuncInputsOfWithResults(c) ==
  IF c.Node = "FuncDecl" THEN inputs(c.Recv, c.Params \o c.Results) ELSE inputs(<<>>, c.Params)

\* The switch of the walk: a node's inputs, position and name.
FuncInputsOf(c) ==
  IF c.Node = "FuncDecl" THEN inputs(c.Recv, c.Params) ELSE inputs(<<>>, c.Params)
\* FuncPositionOf with c.Pos(), the func keyword, for a declaration too.
FuncPositionOfKeyword(c, path) ==
  IF c.Node = "FuncDecl" THEN Position(path, c.Name.Line, 1)
  ELSE Position(path, c.Line, c.Col)
FuncPositionOf(c, path) ==
  IF c.Node = "FuncDecl" THEN Position(path, c.Name.Line, c.Name.Col)
  ELSE Position(path, c.Line, c.Col)
FuncNameOf(c) == IF c.Node = "FuncDecl" THEN c.Name.Name ELSE ""

\* The targets one function node adds, in order, each with its map key
\* fset.Position(in.pos).
NodeTargets(c, path) ==
  LET inp == SelectSeq(FuncInputsOf(c), LAMBDA in : ~isBlankIdent(in.ident))
  IN  [k \in 1..Len(inp) |->
         [key |-> Position(path, inp[k].pos.Line, inp[k].pos.Col),
          funcInput |-> inp[k],
          funcPosition |-> FuncPositionOf(c, path),
          funcName |-> FuncNameOf(c),
          uses |-> {}]]

RECURSIVE NodesTargets(_, _)
NodesTargets(nodes, path) ==
  IF nodes = <<>> THEN <<>>
  ELSE NodeTargets(Head(nodes), path) \o NodesTargets(Tail(nodes), path)

\* The assignments allTargets[f.pkg][key] = target made while walking a file.
FileTargets(f) == NodesTargets(FuncNodes(f.Decls), f.Path)

\* A map built by assignments in order: a later one for a key replaces an
\* earlier one.
MapOf(assigns) ==
  [k \in {assigns[n].key : n \in 1..Len(assigns)} |->
     LET last == CHOOSE n \in 1..Len(assigns) :
                   /\ assigns[n].key = k
                   /\ \A m \in (n + 1)..Len(assigns) : assigns[m].key # k
     IN  assigns[last]]

\* allTargets[pkg] for parsed files fs: a map from Position to target.  The
\* keys of different files differ in Filename, so the order of the files
\* makes no difference.
\* TargetsForPackage that takes the targets of the files of every package.
TargetsForAllPackages(fs, pkg) ==
  LET maps == [f \in fs |-> MapOf(FileTargets(f))]
      keys == UNION {DOMAIN maps[f] : f \in fs}
  IN  [k \in keys |-> maps[CHOOSE f \in fs : k \in DOMAIN maps[f]][k]]

TargetsForPackage(fs, pkg) ==
  LET own == {f \in fs : f.Pkg = pkg}
      maps == [f \in own |-> MapOf(FileTargets(f))]
      keys == UNION {DOMAIN maps[f] : f \in own}
  IN  [k \in keys |-> maps[CHOOSE f \in own : k \in DOMAIN maps[f]][k]]

(***************************************************************************)
(* The type checker's Uses: each identifier that refers to an object, with *)
(* the position of the object's declaration.  A name resolves to its       *)
(* innermost enclosing declaration; a name declared nowhere in the         *)
(* function is a universe or package-level object, whose position is not   *)
(* the position of any input.                                              *)
(***************************************************************************)
\* env with the names of fields bound to their positions
RECURSIVE BindNames(_, _)
BindNames(env, names) ==
  IF names = <<>> THEN env
  ELSE LET n == Head(names)
           e == IF n.Name = "_" THEN env
                ELSE [x \in DOMAIN env \cup {n.Name} |->
                        IF x = n.Name THEN [Line |-> n.Line, Col |-> n.Col] ELSE env[x]]
       IN  BindNames(e, Tail(names))

RECURSIVE BindFields(_, _)
BindFields(env, list) ==
  IF list = <<>> THEN env
  ELSE BindFields(BindNames(env, Head(list).Names), Tail(list))

\* UsesIn that records no identifier of the body of a function literal.
RECURSIVE UsesInNoLiterals(_, _, _)
UsesInNoLiterals(stmts, env, path) ==
  IF stmts = <<>> THEN {}
  ELSE LET s == Head(stmts)
           rest == Tail(stmts)
       IN  CASE s.Node = "Var" ->
                  UsesInNoLiterals(rest, BindNames(env, <<Id(s.Name, s.Line, s.Col)>>), path)
             [] s.Node = "Ident" ->
                  { [id |-> Position(path, s.Line, s.Col), name |-> s.Name,
                     obj |-> IF s.Name \in DOMAIN env
                             THEN Position(path, env[s.Name].Line, env[s.Name].Col)
                             ELSE NoPosition] }
                    \cup UsesInNoLiterals(rest, env, path)
             [] s.Node = "Block" ->
                  UsesInNoLiterals(s.Body, env, path) \cup UsesInNoLiterals(rest, env, path)
             [] s.Node = "FuncLit" -> UsesInNoLiterals(rest, env, path)

RECURSIVE UsesIn(_, _, _)
UsesIn(stmts, env, path) ==
  IF stmts = <<>> THEN {}
  ELSE LET s == Head(stmts)
           rest == Tail(stmts)
       IN  CASE s.Node = "Var" ->
                  UsesIn(rest, BindNames(env, <<Id(s.Name, s.Line, s.Col)>>), path)
             [] s.Node = "Ident" ->
                  { [id |-> Position(path, s.Line, s.Col), name |-> s.Name,
                     obj |-> IF s.Name \in DOMAIN env
                             THEN Position(path, env[s.Name].Line, env[s.Name].Col)
                             ELSE NoPosition] }
                    \cup UsesIn(rest, env, path)
             [] s.Node = "Block" ->
                  UsesIn(s.Body, env, path) \cup UsesIn(rest, env, path)
             [] s.Node = "FuncLit" ->
                  UsesIn(s.Body, BindFields(env, s.Params), path) \cup UsesIn(rest, env, path)

EmptyEnv == [x \in {} |-> 0]

\* info.Uses of one function declaration
DeclUses(d, path) ==
  UsesIn(d.Body, BindFields(BindFields(BindFields(EmptyEnv, d.Recv), d.Params), d.Results), path)

FileUses(f) == UNION {DeclUses(f.Decls[k], f.Path) : k \in 1..Len(f.Decls)}

\* config.Check for the files of one package: the info.Uses it fills in.
CheckUses(fs) == UNION {FileUses(f) : f \in fs}

\* config.Check returns an error when a file of the package does not type
\* check.
CheckFails(fs) == \E f \in fs : ~f.Checks

(***************************************************************************)
(* makeResult                                                              *)
(***************************************************************************)
\* UseOfTarget with the use matched to the target by the name of the
\* identifier instead of the position of its object.
UseOfTargetByName(u, t) ==
  u.name = t.funcInput.ident.Name /\ u.id.Filename = t.key.Filename

\* t, ok := targets[fset.Position(obj.Pos())]: the use u is recorded for
\* the target whose key is the position of the object u refers to.
UseOfTarget(u, t) == u.obj = t.key

\* The first loop: every target with the identifiers that use it.  The
\* order in which the map of uses is ranged over decides only the order of
\* the identifiers in t.uses, which is kept as a set.
MarkUses(targets, uses) ==
  {[targets[k] EXCEPT !.uses = {u.id : u \in {v \in uses : UseOfTarget(v, targets[k])}}] :
     k \in DOMAIN targets}

\* TargetLess that leaves the filename out.
TargetLessNoFile(a, b) ==
  IF a.funcPosition.Line < b.funcPosition.Line THEN TRUE
  ELSE IF a.funcPosition.Line > b.funcPosition.Line THEN FALSE
  ELSE a.funcPosition.Column < b.funcPosition.Column

\* The less function of the sort: by the function's filename, line, column.
TargetLess(a, b) ==
  IF StrLess(a.funcPosition.Filename, b.funcPosition.Filename) THEN TRUE
  ELSE IF StrLess(b.funcPosition.Filename, a.funcPosition.Filename) THEN FALSE
  ELSE IF a.funcPosition.Line < b.funcPosition.Line THEN TRUE
  ELSE IF a.funcPosition.Line > b.funcPosition.Line THEN FALSE
  ELSE a.funcPosition.Column < b.funcPosition.Column

\* What sort.Slice can leave of the targets taken from the map in any
\* order: every arrangement in which no target is before a smaller one.
\* sort.Slice is not stable and the map is ranged over in no fixed order,
\* so targets that compare equal end in any order.
RECURSIVE SortedOrders(_)
SortedOrders(S) ==
  IF S = {} THEN {<<>>}
  ELSE LET least == {x \in S : \A y \in S : ~TargetLess(y, x)}
       IN  UNION {{<<x>> \o rest : rest \in SortedOrders(S \ {x})} : x \in least}

\* The Result of a target.  A token.Pos lies in one file of the file set:
\* the input's file is the file of its function.
ResultOf(t) ==
  [Ident |-> t.funcInput.ident,
   Field |-> t.funcInput.field,
   Kind |-> t.funcInput.kind,
   Uses |-> t.uses,
   Position |-> Position(t.funcPosition.Filename, t.funcInput.pos.Line, t.funcInput.pos.Col),
   FuncPosition |-> t.funcPosition,
   FuncName |-> t.funcName]

\* The slices makeResult can return for a package.
makeResult(targets, uses) ==
  {[k \in 1..Len(o) |-> ResultOf(o[k])] :
     o \in SortedOrders(MarkUses(targets, uses))}

(***************************************************************************)
(* Find                                                                    *)
(***************************************************************************)
\* parser.ParseFile of every file of the map.
ParsedFiles(contents) == {FileAt(p) : p \in DOMAIN contents}
ParseFails(contents) == \E p \in DOMAIN contents : ~FileAt(p).Parses

\* UniquePkgNames that keeps the package name of one file only.
UniquePkgNamesFirstSeen(fs) == IF fs = {} THEN {} ELSE {(CHOOSE f \in fs : TRUE).Pkg}

\* UniquePkgNames that leaves out the packages without a target.
UniquePkgNamesWithTargets(fs) == {f.Pkg : f \in {g \in fs : FileTargets(g) # <<>>}}

UniquePkgNames(fs) == {f.Pkg : f \in fs}
FilesOfPkg(fs, pkg) == {f \in fs : f.Pkg = pkg}

\* FindWarns that records no error.
FindWarnsNone(fs) == [p \in {} |-> <<>>]

\* warns: an entry for each package whose check returned an error.
FindWarns(fs) ==
  [pkg \in {p \in UniquePkgNames(fs) : CheckFails(FilesOfPkg(fs, p))} |->
     <<"type check error">>]

\* The results maps Find can return: for every package one of the slices
\* makeResult can return for it.
RECURSIVE ResultMaps(_, _)
ResultMaps(fs, pkgs) ==
  IF pkgs = {} THEN {[p \in {} |-> <<>>]}
  ELSE LET pkg == CHOOSE p \in pkgs : TRUE
           slices == makeResult(TargetsForPackage(fs, pkg), CheckUses(FilesOfPkg(fs, pkg)))
       IN  {[p \in DOMAIN m \cup {pkg} |-> IF p = pkg THEN s ELSE m[p]] :
              m \in ResultMaps(fs, pkgs \ {pkg}), s \in slices}

FindResults(contents) ==
  ResultMaps(ParsedFiles(contents), UniquePkgNames(ParsedFiles(contents)))

(***************************************************************************)
(* The command (src/unusedargs.go)                                         *)
(***************************************************************************)
VARIABLES
  strict,        \* the -strict flag
  ignoreTypes,   \* the -ignore flags
  files,         \* the files handleFiles is called with
  run,           \* which run of the command this is: the first or the second
  prevOutput,    \* what the previous run wrote to output
  pc,            \* where the command is
  i,             \* the index of the file to read next
  j,             \* the index in warnsOrder or resultsOrder
  contents,      \* path -> contents of the files read
  results,       \* Find's results: package -> slice of Result
  warns,         \* Find's warns: package -> errors
  printedWarns,  \* the packages a warning was printed for
  output,        \* what was written to output (the report)
  stderr,        \* what was written to os.Stderr
  exitCode,      \* the exitCode variable
  status,        \* the exit status of the process, -1 while it runs
  args,          \* main: flag.Args()
  dirsRun,       \* main: the first value classifyArgs returned
  filesRun,      \* main: the second value classifyArgs returned
  pkgsRun,       \* main: the third value classifyArgs returned
  targets,       \* main: the directories or packages still to be handled
  branch         \* main: the branch that runs: "cwd", "dirs", "files" or "pkgs"

\* The variables of main.
mainVars == <<args, dirsRun, filesRun, pkgsRun, targets, branch>>

vars == <<strict, ignoreTypes, files, run, prevOutput, pc, i, j, contents, results,
          warns, printedWarns, output, stderr, exitCode, status, mainVars>>

\* The sequence sort.Slice leaves of a set of strings ordered by <.
RECURSIVE SortStrings(_)
SortStrings(S) ==
  IF S = {} THEN <<>>
  ELSE LET m == CHOOSE x \in S : \A y \in S \ {x} : StrLess(x, y)
       IN  <<m>> \o SortStrings(S \ {m})

\* The file lists the command is run on: up to MaxFiles files.
FileLists == {SortStrings(S) : S \in {T \in SUBSET Paths : Cardinality(T) \in 1..MaxFiles}}

NoMap == [p \in {} |-> <<>>]

\* The state in which handleFiles is called with fs, as the test calls it:
\* main's variables have their zero values.
Start(fs, st, ign, r, prev) ==
  /\ strict = st
  /\ ignoreTypes = ign
  /\ files = fs
  /\ run = r
  /\ prevOutput = prev
  /\ pc = "read"
  /\ i = 1
  /\ j = 1
  /\ contents = NoMap
  /\ results = NoMap
  /\ warns = NoMap
  /\ printedWarns = {}
  /\ output = <<>>
  /\ stderr = <<>>
  /\ exitCode = 0
  /\ status = -1
  /\ args = <<>>
  /\ dirsRun = 0
  /\ filesRun = 0
  /\ pkgsRun = 0
  /\ targets = <<>>
  /\ branch = ""

Init == \E fs \in FileLists, st \in BOOLEAN : Start(fs, st, {}, 1, <<>>)

\* Fatal that writes the message and goes on to the report.
FatalContinues(msg) ==
  /\ stderr' = Append(stderr, <<"unusedarg: ", msg, "\n">>)
  /\ status' = status
  /\ pc' = "print"

\* log.Fatal(msg): the message on os.Stderr, exit status 1.
Fatal(msg) ==
  /\ stderr' = Append(stderr, <<"unusedarg: ", msg, "\n">>)
  /\ status' = 1
  /\ pc' = "fatal"

\* ReadFile that sets the exit code when it skips a file.
ReadFileSkipFails ==
  /\ pc = "read"
  /\ i <= Len(files)
  /\ LET name == files[i]
         f == FileAt(name)
     IN  IF ~f.Readable
         THEN IF strict
              THEN /\ Fatal("open " \o name)
                   /\ UNCHANGED <<i, contents, exitCode>>
              ELSE /\ stderr' = Append(stderr, <<"skipping: ", "open " \o name, "\n">>)
                   /\ exitCode' = 1
                   /\ i' = i + 1
                   /\ pc' = IF i = Len(files) THEN "find" ELSE "read"
                   /\ UNCHANGED <<contents, status>>
         ELSE /\ contents' = [p \in DOMAIN contents \cup {name} |->
                                IF p = name THEN f.Src ELSE contents[p]]
              /\ i' = i + 1
              /\ pc' = IF i = Len(files) THEN "find" ELSE "read"
              /\ UNCHANGED <<stderr, status, exitCode>>
  /\ UNCHANGED <<mainVars, strict, ignoreTypes, files, run, prevOutput, j, results, warns,
                 printedWarns, output>>

\* ReadFile that, after the skipping line, goes on to store the file.
ReadFileNoContinue ==
  /\ pc = "read"
  /\ i <= Len(files)
  /\ LET name == files[i]
         f == FileAt(name)
     IN  IF ~f.Readable /\ strict
         THEN /\ Fatal("open " \o name)
              /\ UNCHANGED <<i, contents>>
         ELSE /\ stderr' = IF f.Readable THEN stderr
                           ELSE Append(stderr, <<"skipping: ", "open " \o name, "\n">>)
              /\ contents' = [p \in DOMAIN contents \cup {name} |->
                                IF p = name THEN f.Src ELSE contents[p]]
              /\ i' = i + 1
              /\ pc' = IF i = Len(files) THEN "find" ELSE "read"
              /\ UNCHANGED status
  /\ UNCHANGED <<mainVars, strict, ignoreTypes, files, run, prevOutput, j, results, warns,
                 printedWarns, output, exitCode>>

\* One turn of the loop that reads the files.
ReadFile ==
  /\ pc = "read"
  /\ i <= Len(files)
  /\ LET name == files[i]
         f == FileAt(name)
     IN  IF ~f.Readable
         THEN IF strict
              THEN /\ Fatal("open " \o name)
                   /\ UNCHANGED <<i, contents>>
              ELSE /\ stderr' = Append(stderr, <<"skipping: ", "open " \o name, "\n">>)
                   /\ i' = i + 1
                   /\ pc' = IF i = Len(files) THEN "find" ELSE "read"
                   /\ UNCHANGED <<contents, status>>
         ELSE /\ contents' = [p \in DOMAIN contents \cup {name} |->
                                IF p = name THEN f.Src ELSE contents[p]]
              /\ i' = i + 1
              /\ pc' = IF i = Len(files) THEN "find" ELSE "read"
              /\ UNCHANGED <<stderr, status>>
  /\ UNCHANGED <<mainVars, strict, ignoreTypes, files, run, prevOutput, j, results, warns,
                 printedWarns, output, exitCode>>

\* The call of usages.Find with what follows it up to the loops: the
\* error check and the sorting of the packages of warns.
\* resultsOrder with the package names in descending order.
resultsOrderDescending ==
  LET o == SortStrings(DOMAIN results)
  IN  [k \in 1..Len(o) |-> o[Len(o) + 1 - k]]

warnsOrder == SortStrings(DOMAIN warns)
resultsOrder == SortStrings(DOMAIN results)

Find ==
  /\ pc = "find"
  /\ IF ParseFails(contents)
     THEN /\ Fatal("parse error")
          /\ UNCHANGED <<results, warns>>
     ELSE /\ \E r \in FindResults(contents) : results' = r
          /\ warns' = FindWarns(ParsedFiles(contents))
          /\ pc' = IF DOMAIN warns' = {} THEN "print" ELSE "warn"
          /\ UNCHANGED <<stderr, status>>
  /\ UNCHANGED <<mainVars, strict, ignoreTypes, files, run, prevOutput, i, j, contents,
                 printedWarns, output, exitCode>>

\* PrintWarn that prints the warning with -strict as it does without.
PrintWarnNeverFatal ==
  /\ pc = "warn"
  /\ j <= Len(warnsOrder)
  /\ LET pkg == warnsOrder[j]
     IN  /\ IF pkg \in printedWarns
            THEN UNCHANGED <<printedWarns, stderr>>
            ELSE /\ printedWarns' = printedWarns \cup {pkg}
                 /\ stderr' = Append(stderr, <<"failed to type check package ", pkg,
                                               ": results may be partial", "\n">>)
         /\ j' = IF j = Len(warnsOrder) THEN 1 ELSE j + 1
         /\ pc' = IF j = Len(warnsOrder) THEN "print" ELSE "warn"
         /\ UNCHANGED status
  /\ UNCHANGED <<mainVars, strict, ignoreTypes, files, run, prevOutput, i, contents, results,
                 warns, output, exitCode>>

\* One turn of the loop that prints the warnings.
PrintWarn ==
  /\ pc = "warn"
  /\ j <= Len(warnsOrder)
  /\ LET pkg == warnsOrder[j]
     IN  IF strict
         THEN /\ Fatal(warns[pkg][1])
              /\ UNCHANGED <<j, printedWarns>>
         ELSE /\ IF pkg \in printedWarns
                 THEN UNCHANGED <<printedWarns, stderr>>
                 ELSE /\ printedWarns' = printedWarns \cup {pkg}
                      /\ stderr' = Append(stderr, <<"failed to type check package ", pkg,
                                                    ": results may be partial", "\n">>)
              /\ j' = IF j = Len(warnsOrder) THEN 1 ELSE j + 1
              /\ pc' = IF j = Len(warnsOrder) THEN "print" ELSE "warn"
              /\ UNCHANGED status
  /\ UNCHANGED <<mainVars, strict, ignoreTypes, files, run, prevOutput, i, contents, results,
                 warns, output, exitCode>>

\* HasUses that asks for more than one use.
HasUsesMoreThanOne(r) == Cardinality(r.Uses) > 1

\* len(r.Uses) > 0
HasUses(r) == Cardinality(r.Uses) > 0

\* InGeneratedFile that looks the contents up by the name of the function.
InGeneratedFileByName(r, c) ==
  IF r.FuncName \in DOMAIN c THEN isGenerated(c[r.FuncName]) ELSE isGenerated(<<>>)

\* isGenerated(contents[r.Position.Filename]); a missing key gives no bytes.
InGeneratedFile(r, c) ==
  IF r.Position.Filename \in DOMAIN c THEN isGenerated(c[r.Position.Filename])
  ELSE isGenerated(<<>>)

\* FuncLabel without the label for literals.
FuncLabelRaw(r) == r.FuncName

\* The name printed for a function.
FuncLabel(r) == IF r.FuncName = "" THEN "func" ELSE r.FuncName

\* Position.String() of a valid position with a filename.
PositionString(pos) == <<pos.Filename, ":", pos.Line, ":", pos.Column>>

\* ReportLine with the position of the input instead of the function's.
ReportLineAtInput(r) ==
  PositionString(r.Position) \o <<": ", FuncLabel(r), " has unused ", r.Kind, " ",
                                  r.Ident.Name, "\n">>

\* fmt.Fprintf(output, "%s: %s has unused %s %s\n", ...)
ReportLine(r) ==
  PositionString(r.FuncPosition) \o <<": ", FuncLabel(r), " has unused ", r.Kind, " ",
                                      r.Ident.Name, "\n">>

\* The results of a package that are printed, in order.
Reported(rs, c) == SelectSeq(rs, LAMBDA r : ~HasUses(r) /\ ~InGeneratedFile(r, c))

\* PrintResults that sets the exit code from the package it prints alone.
PrintResultsLastPackage ==
  /\ pc = "print"
  /\ j <= Len(resultsOrder)
  /\ LET pkg == resultsOrder[j]
         rep == Reported(results[pkg], contents)
     IN  /\ output' = output \o [k \in 1..Len(rep) |-> ReportLine(rep[k])]
         /\ exitCode' = IF Len(rep) > 0 THEN 1 ELSE 0
  /\ j' = j + 1
  /\ UNCHANGED <<mainVars, strict, ignoreTypes, files, run, prevOutput, pc, i, contents, results,
                 warns, printedWarns, stderr, status>>

\* One turn of the outer loop that prints the results: all the results of
\* one package.
PrintResults ==
  /\ pc = "print"
  /\ j <= Len(resultsOrder)
  /\ LET pkg == resultsOrder[j]
         rep == Reported(results[pkg], contents)
     IN  /\ output' = output \o [k \in 1..Len(rep) |-> ReportLine(rep[k])]
         /\ exitCode' = IF Len(rep) > 0 THEN 1 ELSE exitCode
  /\ j' = j + 1
  /\ UNCHANGED <<mainVars, strict, ignoreTypes, files, run, prevOutput, pc, i, contents, results,
                 warns, printedWarns, stderr, status>>

\* Exit that always ends with status 0.
ExitZero ==
  /\ pc = "print"
  /\ j > Len(resultsOrder)
  /\ status' = 0
  /\ pc' = "exited"
  /\ UNCHANGED <<mainVars, strict, ignoreTypes, files, run, prevOutput, i, j, contents, results,
                 warns, printedWarns, output, stderr, exitCode>>

\* handleFiles returns and main ends with os.Exit(exitCode).
Exit ==
  /\ pc = "print"
  /\ j > Len(resultsOrder)
  /\ status' = exitCode
  /\ pc' = "exited"
  /\ UNCHANGED <<mainVars, strict, ignoreTypes, files, run, prevOutput, i, j, contents, results,
                 warns, printedWarns, output, stderr, exitCode>>

\* The command is run again with the same flags on the same files.
Rerun ==
  /\ pc \in {"exited", "fatal"}
  /\ run = 1
  /\ run' = 2
  /\ prevOutput' = output
  /\ pc' = "read"
  /\ i' = 1
  /\ j' = 1
  /\ contents' = NoMap
  /\ results' = NoMap
  /\ warns' = NoMap
  /\ printedWarns' = {}
  /\ output' = <<>>
  /\ stderr' = <<>>
  /\ exitCode' = 0
  /\ status' = -1
  /\ UNCHANGED <<mainVars, strict, ignoreTypes, files>>

\* One run of the command.
Next == ReadFile \/ Find \/ PrintWarn \/ PrintResults \/ Exit

Spec == Init /\ [][Next]_vars

\* The command run, and then run a second time on the same arguments.
NextTwice == ReadFile \/ Find \/ PrintWarn \/ PrintResults \/ Exit \/ Rerun

SpecTwice == Init /\ [][NextTwice]_vars

(***************************************************************************)
(* main (src/unusedargs.go) and classifyArgs (src/args.go).  The file      *)
(* system (os.Stat) and go/build are collaborators whose answers are given *)
(* by the tables below, for the files of Catalogue.                        *)
(***************************************************************************)
\* Bound of the model.
MaxArgs == 2   \* command-line arguments after the flags

\* The directories that exist.  testdata holds only directories.
DirNames == {".", "testdata", "testdata/pkg2", "testdata/pkg3", "testdata/pkg4", "testdata/pkg5"}

\* The arguments given to the command: directories, a directory with the
\* /... suffix, files, and import paths that name nothing in the file system.
ArgUniverse ==
  {"testdata", "testdata/pkg2", "testdata/pkg3", "testdata/pkg4", "testdata/pkg5",
   "testdata/pkg2/...", "testdata/pkg2/pkg2.go", "testdata/pkg4/typeerr.go", "nosuch/pkg",
   "example.org/empty"}

ArgLists == UNION {[1..n -> ArgUniverse] : n \in 0..MaxArgs}

\* strings.HasSuffix(arg, "/...") and arg[:len(arg)-len("/...")], for the
\* arguments of ArgUniverse.
HasDotsSuffix(arg) == arg = "testdata/pkg2/..."
TrimDotsSuffix(arg) == IF arg = "testdata/pkg2/..." THEN "testdata/pkg2" ELSE arg

\* os.Stat succeeds and reports a directory.
isDir(p) == p \in DirNames

\* os.Stat succeeds.
exists(p) == p \in DirNames \/ p \in Paths

\* allPackagesInFS(arg): the directories under the argument's prefix that
\* hold a package.
allPackagesInFS(arg) == IF arg = "testdata/pkg2/..." THEN <<"testdata/pkg2">> ELSE <<>>

\* importPaths(results): import paths without a wildcard are returned as
\* they are.
importPaths(paths) == paths

\* classifyArgs: one turn of its loop, on the values so far.
classifyArg(c, arg) ==
  IF HasDotsSuffix(arg) /\ isDir(TrimDotsSuffix(arg))
  THEN [c EXCEPT !.dirs = 1, !.results = c.results \o allPackagesInFS(arg)]
  ELSE IF isDir(arg)
  THEN [c EXCEPT !.dirs = 1, !.results = Append(c.results, arg)]
  ELSE IF exists(arg)
  THEN [c EXCEPT !.files = 1, !.results = Append(c.results, arg)]
  ELSE [c EXCEPT !.pkgs = 1, !.results = Append(c.results, arg)]

RECURSIVE classifyFrom(_, _, _)
classifyFrom(c, as, k) ==
  IF k > Len(as) THEN c ELSE classifyFrom(classifyArg(c, as[k]), as, k + 1)

classifyArgs(as) == classifyFrom([dirs |-> 0, files |-> 0, pkgs |-> 0, results |-> <<>>], as, 1)

\* build.ImportDir(p, 0), with the files of the package as handleImportedPkg
\* joins them: no Go files in . and testdata, a file go/build cannot read in
\* testdata/pkg3.
ImportDir(p) ==
  CASE p = "testdata/pkg2" -> [err |-> "", files |-> <<"testdata/pkg2/pkg2.go">>]
    [] p = "testdata/pkg4" -> [err |-> "", files |-> <<"testdata/pkg4/typeerr.go">>]
    [] p = "testdata/pkg5" -> [err |-> "", files |-> <<"testdata/pkg5/none.go">>]
    [] p = "testdata/pkg3" -> [err |-> "broken.go: expected 'IDENT'", files |-> <<>>]
    [] OTHER -> [err |-> "NoGoError", files |-> <<>>]

\* build.Import(p, ".", 0): example.org/empty is a directory of GOPATH
\* without Go files, nosuch/pkg is found nowhere.
Import(p) ==
  CASE p = "example.org/empty" -> [err |-> "NoGoError", files |-> <<>>]
    [] OTHER -> [err |-> "cannot find package", files |-> <<>>]

isIgnorable(err) == err = "NoGoError"

InitMain ==
  \E as \in ArgLists, st \in BOOLEAN :
    /\ strict = st
    /\ ignoreTypes = {}
    /\ args = as
    /\ pc = "main"
    /\ files = <<>>
    /\ run = 1
    /\ prevOutput = <<>>
    /\ i = 1
    /\ j = 1
    /\ contents = NoMap
    /\ results = NoMap
    /\ warns = NoMap
    /\ printedWarns = {}
    /\ output = <<>>
    /\ stderr = <<>>
    /\ exitCode = 0
    /\ status = -1
    /\ dirsRun = 0
    /\ filesRun = 0
    /\ pkgsRun = 0
    /\ targets = <<>>
    /\ branch = ""

\* The call handleFiles(fs): its locals are fresh.
CallHandleFiles(fs) ==
  /\ files' = fs
  /\ pc' = "read"
  /\ i' = 1
  /\ j' = 1
  /\ contents' = NoMap
  /\ results' = NoMap
  /\ warns' = NoMap
  /\ printedWarns' = {}

\* usage() that exits with the status of a run with findings.
usageExitOne ==
  /\ stderr' = Append(stderr, <<"help">>)
  /\ status' = 1
  /\ pc' = "usage"

\* usage() that returns to its caller.
usageReturns ==
  /\ stderr' = Append(stderr, <<"help">>)
  /\ status' = status
  /\ pc' = "loop"

\* usage(): the help text on os.Stderr, os.Exit(2).
usage ==
  /\ stderr' = Append(stderr, <<"help">>)
  /\ status' = 2
  /\ pc' = "usage"

\* main from flag.Args() to the branch that runs: the call of handleFiles in
\* the files branch, the start of the loop in the other branches.
Main ==
  /\ pc = "main"
  /\ IF Len(args) = 0
     THEN /\ branch' = "cwd"
          /\ targets' = <<".">>
          /\ pc' = "loop"
          /\ UNCHANGED <<dirsRun, filesRun, pkgsRun, files, i, j, contents, results, warns,
                         printedWarns, stderr, status>>
     ELSE LET c == classifyArgs(args)
          IN  /\ dirsRun' = c.dirs
              /\ filesRun' = c.files
              /\ pkgsRun' = c.pkgs
              /\ IF c.dirs + c.files + c.pkgs # 1
                 THEN /\ usage
                      /\ UNCHANGED <<branch, targets, files, i, j, contents, results, warns,
                                     printedWarns>>
                 ELSE IF c.dirs = 1
                 THEN /\ branch' = "dirs"
                      /\ targets' = c.results
                      /\ pc' = "loop"
                      /\ UNCHANGED <<files, i, j, contents, results, warns, printedWarns,
                                     stderr, status>>
                 ELSE IF c.files = 1
                 THEN /\ branch' = "files"
                      /\ CallHandleFiles(c.results)
                      /\ UNCHANGED <<targets, stderr, status>>
                 ELSE IF c.pkgs = 1
                 THEN /\ branch' = "pkgs"
                      /\ targets' = importPaths(c.results)
                      /\ pc' = "loop"
                      /\ UNCHANGED <<files, i, j, contents, results, warns, printedWarns,
                                     stderr, status>>
                 ELSE /\ stderr' = Append(stderr, <<"panic: ", "code bug: expected one dirsRun|filesRun|pkgsRun to be 1">>)
                      /\ status' = 2
                      /\ pc' = "panic"
                      /\ UNCHANGED <<branch, targets, files, i, j, contents, results, warns,
                                     printedWarns>>
  /\ UNCHANGED <<strict, ignoreTypes, args, run, prevOutput, output, exitCode>>

\* handleDir or handlePkg for an imported package or an error, up to the
\* call of handleFiles.
HandleImported(r) ==
  IF r.err # ""
  THEN IF ~isIgnorable(r.err)
       THEN /\ Fatal(r.err)
            /\ UNCHANGED <<files, i, j, contents, results, warns, printedWarns>>
       ELSE UNCHANGED <<pc, files, i, j, contents, results, warns, printedWarns, stderr,
                        status>>
  ELSE /\ CallHandleFiles(r.files)
       /\ UNCHANGED <<stderr, status>>

\* One turn of the loop over the directories: handleDir(dir).
HandleDir ==
  /\ pc = "loop"
  /\ branch \in {"cwd", "dirs"}
  /\ targets # <<>>
  /\ targets' = Tail(targets)
  /\ HandleImported(ImportDir(Head(targets)))
  /\ UNCHANGED <<strict, ignoreTypes, args, dirsRun, filesRun, pkgsRun, branch, run,
                 prevOutput, output, exitCode>>

\* One turn of the loop over the packages: handlePkg(pkg).
HandlePkg ==
  /\ pc = "loop"
  /\ branch = "pkgs"
  /\ targets # <<>>
  /\ targets' = Tail(targets)
  /\ HandleImported(Import(Head(targets)))
  /\ UNCHANGED <<strict, ignoreTypes, args, dirsRun, filesRun, pkgsRun, branch, run,
                 prevOutput, output, exitCode>>

\* handleFiles returns to main.
Return ==
  /\ pc = "print"
  /\ j > Len(resultsOrder)
  /\ pc' = "loop"
  /\ UNCHANGED <<mainVars, strict, ignoreTypes, files, run, prevOutput, i, j, contents,
                 results, warns, printedWarns, output, stderr, exitCode, status>>

\* The branch is done: os.Exit(exitCode).
MainExit ==
  /\ pc = "loop"
  /\ targets = <<>>
  /\ status' = exitCode
  /\ pc' = "exited"
  /\ UNCHANGED <<mainVars, strict, ignoreTypes, files, run, prevOutput, i, j, contents,
                 results, warns, printedWarns, output, stderr, exitCode>>

NextMain ==
  Main \/ HandleDir \/ HandlePkg \/ ReadFile \/ Find \/ PrintWarn \/ PrintResults \/ Return
    \/ MainExit

SpecMain == InitMain /\ [][NextMain]_vars

(***************************************************************************)
(* What the properties below speak of.                                     *)
(***************************************************************************)
\* The command has printed all it prints and has ended.
Done == pc = "exited"

\* The files that were read and given to Find.
Analysed == {FileAt(p) : p \in DOMAIN contents}

\* The lines of the report.
Lines == {output[k] : k \in 1..Len(output)}

\* The report line of a function at file:line:col for an input.
Line(file, line, col, label, kind, ident) ==
  <<file, ":", line, ":", col, ": ", label, " has unused ", kind, " ", ident, "\n">>

LineFile(l) == l[1]
LineRow(l) == l[3]
LineCol(l) == l[5]
LineLabel(l) == l[7]
LineKind(l) == l[9]
LineIdent(l) == l[11]

\* The results Find returned, of all packages.
AllResults == UNION {{results[p][k] : k \in 1..Len(results[p])} : p \in DOMAIN results}

\* l reports the input of result r.
IsReportOf(l, r) ==
  /\ LineFile(l) = r.FuncPosition.Filename
  /\ LineRow(l) = r.FuncPosition.Line
  /\ LineCol(l) = r.FuncPosition.Column
  /\ LineKind(l) = r.Kind
  /\ LineIdent(l) = r.Ident.Name

ReportedInput(r) == \E l \in Lines : IsReportOf(l, r)

\* The names a sequence of fields declares.
RECURSIVE FieldNames(_)
FieldNames(list) ==
  IF list = <<>> THEN {}
  ELSE {Head(list).Names[k] : k \in 1..Len(Head(list).Names)} \cup FieldNames(Tail(list))

(***************************************************************************)
(* C1  Shadowing.                                                          *)
(***************************************************************************)
IsUseOf(s, n) == s.Node = "Ident" /\ s.Name = n
IsVarOf(s, n) == s.Node = "Var" /\ s.Name = n

\* The body of d refers to the name n only inside blocks that declare a
\* variable n of their own before the reference.
InnerOnly(d, n) ==
  /\ \A k \in 1..Len(d.Body) :
       /\ d.Body[k].Node \in {"Ident", "Block"}
       /\ ~IsUseOf(d.Body[k], n)
       /\ \A m \in 1..Len(d.Body[k].Body) :
            LET b == d.Body[k].Body
            IN  /\ b[m].Node \in {"Ident", "Var"}
                /\ IsUseOf(b[m], n) => \E v \in 1..(m - 1) : IsVarOf(b[v], n)
  /\ \E k \in 1..Len(d.Body) : \E m \in 1..Len(d.Body[k].Body) : IsUseOf(d.Body[k].Body[m], n)

\* The position pos is a reference, inside a block of a function of an
\* analysed file, to a variable the block declared before it.
InnerOccurrence(pos) ==
  \E f \in Analysed :
    /\ f.Path = pos.Filename
    /\ \E k \in 1..Len(f.Decls) : \E b \in 1..Len(f.Decls[k].Body) :
         LET blk == f.Decls[k].Body[b].Body
         IN  /\ f.Decls[k].Body[b].Node = "Block"
             /\ \E m \in 1..Len(blk) :
                  /\ blk[m].Node = "Ident"
                  /\ blk[m].Line = pos.Line
                  /\ blk[m].Col = pos.Column
                  /\ \E v \in 1..(m - 1) : IsVarOf(blk[v], blk[m].Name)

\* C1: a parameter n of a function whose body refers to n only inside blocks
\* that redeclare n is reported as an unused parameter of the function, and
\* no reference that resolves to such an inner declaration is ever recorded
\* as a use of an input, in the results of a run that ended.
C1_ShadowingSound ==
  /\ Done => \A r \in AllResults : \A pos \in r.Uses : ~InnerOccurrence(pos)
  /\ Done =>
       \A f \in Analysed : \A k \in 1..Len(f.Decls) :
         \A n \in FieldNames(f.Decls[k].Params) :
           (n.Name # "_" /\ InnerOnly(f.Decls[k], n.Name) /\ ~isGenerated(f.Src))
             => Line(f.Path, f.Decls[k].Name.Line, f.Decls[k].Name.Col,
                     f.Decls[k].Name.Name, "param", n.Name) \in Lines

\* ScopeUnused and ScopeUsed were analysed: n of ScopeUnused is reported and
\* n of ScopeUsed has a recorded use.
C1_Witness ==
  /\ Done
  /\ Line("testdata/pkg1/pkg1.go", 25, 6, "ScopeUnused", "param", "n") \in Lines
  /\ \E r \in AllResults : r.FuncName = "ScopeUsed" /\ r.Uses # {}

(***************************************************************************)
(* C2  Usage correlation.                                                  *)
(***************************************************************************)
\* The identifiers of package p that the checker resolved to the
\* declaration at position pos.
ResolvingOccurrences(p, pos) ==
  {u.id : u \in {v \in CheckUses(FilesOfPkg(Analysed, p)) : v.obj = pos}}

\* C2: the uses recorded for a candidate are exactly the identifiers of its
\* package that resolve to its declaration position; a candidate outside a
\* generated file is reported if and only if it has none, so VarArgsUsed
\* and ScopeUsed are never reported.
C2_UsageCorrelation ==
  /\ Done => \A p \in DOMAIN results :
       LET resolved == CheckUses(FilesOfPkg(Analysed, p))
       IN  \A k \in 1..Len(results[p]) :
             results[p][k].Uses
               = {u.id : u \in {v \in resolved : v.obj = results[p][k].Position}}
  /\ Done =>
       \A r \in AllResults :
         ~isGenerated(FileAt(r.Position.Filename).Src)
           => (ReportedInput(r) <=> r.Uses = {})
  /\ \A l \in Lines : LineLabel(l) \notin {"VarArgsUsed", "ScopeUsed"}

\* pkg1.go was analysed: s of VarArgsUsed has a use and is not reported, s
\* of VarArgsUnused has none and is reported.
C2_Witness ==
  /\ Done
  /\ \E r \in AllResults :
       r.FuncName = "VarArgsUsed" /\ r.Ident.Name = "s" /\ r.Uses # {} /\ ~ReportedInput(r)
  /\ \E r \in AllResults :
       r.FuncName = "VarArgsUnused" /\ r.Ident.Name = "s" /\ r.Uses = {} /\ ReportedInput(r)

(***************************************************************************)
(* C3  Blank identifier.                                                   *)
(***************************************************************************)
\* C3: an input named _ is never a candidate and is never reported.
C3_BlankExempt ==
  /\ \A r \in AllResults : r.Ident.Name # "_"
  /\ \A l \in Lines : LineIdent(l) # "_"

\* A file declaring a parameter or a receiver named _ was analysed to the
\* end.
C3_Witness ==
  /\ Done
  /\ output # <<>>
  /\ \E f \in Analysed : \E k \in 1..Len(f.Decls) :
       \E n \in FieldNames(f.Decls[k].Recv) \cup FieldNames(f.Decls[k].Params) : n.Name = "_"

(***************************************************************************)
(* C4  Unnamed inputs.                                                     *)
(***************************************************************************)
\* The named, non-blank receivers and parameters a function node declares.
NamedInputs(c) ==
  {n \in (IF c.Node = "FuncDecl" THEN FieldNames(c.Recv) ELSE {}) \cup FieldNames(c.Params) :
     n.Name # "_"}

HasUnnamedField(c) ==
  \/ \E k \in 1..Len(c.Params) : c.Params[k].Names = <<>>
  \/ c.Node = "FuncDecl" /\ \E k \in 1..Len(c.Recv) : c.Recv[k].Names = <<>>

\* C4: an input declared with a type only is no candidate and is never
\* reported: the candidates of a function with such a field are exactly the
\* names its fields declare, and every reported name is a declared name.
C4_UnnamedExempt ==
  /\ \A r \in AllResults : r.Field.Names # <<>> /\ r.Ident.Name # ""
  /\ \A l \in Lines : LineIdent(l) # ""
  /\ Done =>
       \A f \in Analysed : \A k \in 1..Len(f.Decls) :
         LET d == f.Decls[k]
         IN  HasUnnamedField(d) =>
               {r.Ident : r \in {q \in AllResults :
                                   q.FuncPosition = Position(f.Path, d.Name.Line, d.Name.Col)}}
                 = NamedInputs(d)

\* pkg1.go, with UnnamedParam and UnnamedRecv, was analysed to the end.
C4_Witness ==
  /\ Done
  /\ output # <<>>
  /\ \E f \in Analysed : \E k \in 1..Len(f.Decls) : HasUnnamedField(f.Decls[k])

(***************************************************************************)
(* The command with the -ignore flag (the earlier main and handleFiles of  *)
(* src/unusedargs.go): no -strict flag, no generated-file check, no exit   *)
(* code; unused inputs whose type is in ignoreTypes are not reported.      *)
(***************************************************************************)
\* The values of the repeated -ignore flag the model is run with.
IgnoreSets == {{}, {"int"}, {"context.Context", "string"}}

InitIgnore == \E fs \in FileLists, ign \in IgnoreSets : Start(fs, FALSE, ign, 1, <<>>)

\* One turn of the loop that reads the files.
IgnoreReadFile ==
  /\ pc = "read"
  /\ i <= Len(files)
  /\ LET name == files[i]
         f == FileAt(name)
     IN  IF ~f.Readable
         THEN /\ stderr' = Append(stderr, <<"skipping: ", "open " \o name>>)
              /\ UNCHANGED contents
         ELSE /\ contents' = [p \in DOMAIN contents \cup {name} |->
                                IF p = name THEN f.Src ELSE contents[p]]
              /\ UNCHANGED stderr
  /\ i' = i + 1
  /\ pc' = IF i = Len(files) THEN "find" ELSE "read"
  /\ UNCHANGED <<mainVars, strict, ignoreTypes, files, run, prevOutput, j, results, warns,
                 printedWarns, output, exitCode, status>>

\* One turn of the loop that prints the warnings; the format has no
\* argument for its %s.
IgnorePrintWarn ==
  /\ pc = "warn"
  /\ j <= Len(warnsOrder)
  /\ LET pkg == warnsOrder[j]
     IN  IF pkg \in printedWarns
         THEN UNCHANGED <<printedWarns, stderr>>
         ELSE /\ printedWarns' = printedWarns \cup {pkg}
              /\ stderr' = Append(stderr, <<"failed to type check package ", "%!s(MISSING)",
                                            ": results may be partial">>)
  /\ j' = IF j = Len(warnsOrder) THEN 1 ELSE j + 1
  /\ pc' = IF j = Len(warnsOrder) THEN "print" ELSE "warn"
  /\ UNCHANGED <<mainVars, strict, ignoreTypes, files, run, prevOutput, i, contents, results,
                 warns, output, exitCode, status>>

\* IgnoreTypeOf that gives a variadic parameter the type of its elements.
IgnoreTypeOfElement(e) == <<e.Str>>

\* info.TypeOf(field.Type), as the sequence of the type's String(), empty
\* for nil: nil for an *ast.Ellipsis.
IgnoreTypeOf(e) == IF e.Expr = "Ellipsis" THEN <<>> ELSE <<e.Str>>

\* t != nil and ignoreTypes has t.String()
IgnoredType(r, ign) ==
  LET t == IgnoreTypeOf(r.Field.Type)
  IN  t # <<>> /\ t[1] \in ign

\* The name printed for a function.
IgnoreFuncLabel(r) == IF r.FuncName = "" THEN "function literal" ELSE r.FuncName

\* fmt.Printf("%s: %s has unused %s %s\n", ...)
IgnoreReportLine(r) ==
  PositionString(r.FuncPosition) \o <<": ", IgnoreFuncLabel(r), " has unused ", r.Kind, " ",
                                      r.Ident.Name, "\n">>

\* One turn of the outer loop that prints the results.
IgnorePrintResults ==
  /\ pc = "print"
  /\ j <= Len(resultsOrder)
  /\ LET pkg == resultsOrder[j]
         rep == SelectSeq(results[pkg], LAMBDA r : ~HasUses(r) /\ ~IgnoredType(r, ignoreTypes))
     IN  output' = output \o [k \in 1..Len(rep) |-> IgnoreReportLine(rep[k])]
  /\ j' = j + 1
  /\ UNCHANGED <<mainVars, strict, ignoreTypes, files, run, prevOutput, pc, i, contents, results,
                 warns, printedWarns, stderr, exitCode, status>>

\* handleFiles and main return: exit status 0.
IgnoreReturn ==
  /\ pc = "print"
  /\ j > Len(resultsOrder)
  /\ status' = 0
  /\ pc' = "exited"
  /\ UNCHANGED <<mainVars, strict, ignoreTypes, files, run, prevOutput, i, j, contents, results,
                 warns, printedWarns, output, stderr, exitCode>>

NextIgnore == IgnoreReadFile \/ Find \/ IgnorePrintWarn \/ IgnorePrintResults \/ IgnoreReturn

SpecIgnore == InitIgnore /\ [][NextIgnore]_vars

(***************************************************************************)
(* C5  Grouped and variadic names.                                         *)
(***************************************************************************)
\* The function declares several names in one field or a variadic
\* parameter.
Grouped(c) ==
  \E k \in 1..Len(c.Params) :
    Len(c.Params[k].Names) >= 2 \/ c.Params[k].Type.Expr = "Ellipsis"

\* The input names reported for the function at position file:line:col.
ReportedNames(file, line, col) ==
  {LineIdent(l) : l \in {x \in Lines : LineFile(x) = file /\ LineRow(x) = line /\ LineCol(x) = col}}

\* The named inputs of c, a function of file f, to which no identifier of
\* the package resolves.
UnreferencedNames(f, c) ==
  LET resolved == {u.obj : u \in CheckUses(FilesOfPkg(Analysed, f.Pkg))}
  IN  {n.Name : n \in {x \in NamedInputs(c) : Position(f.Path, x.Line, x.Col) \notin resolved}}

\* C5: the names reported for a function with grouped or variadic inputs
\* are exactly those of its names that no identifier resolves to, each
\* name judged on its own.
C5_GroupedIndividually ==
  Done =>
    \A f \in Analysed : \A k \in 1..Len(f.Decls) :
      (Grouped(f.Decls[k]) /\ ~isGenerated(f.Src))
        => ReportedNames(f.Path, f.Decls[k].Name.Line, f.Decls[k].Name.Col)
             = UnreferencedNames(f, f.Decls[k])

\* pkg1.go was analysed: of x, y, s only s is reported for VarArgsUnused,
\* none for VarArgsUsed, and of x, y only y for RegularArgsUnused.
C5_Witness ==
  /\ Done
  /\ ReportedNames("testdata/pkg1/pkg1.go", 10, 6) = {"s"}
  /\ ReportedNames("testdata/pkg1/pkg1.go", 11, 6) = {}
  /\ ReportedNames("testdata/pkg1/pkg1.go", 12, 6) = {"y"}

(***************************************************************************)
(* C6  Function literals.                                                  *)
(***************************************************************************)
\* The function literals of a file.
LiteralsOf(f) ==
  {c \in {FuncNodes(f.Decls)[k] : k \in 1..Len(FuncNodes(f.Decls))} : c.Node = "FuncLit"}

\* C6: a line for a function literal carries the label func, never a
\* function's name, and every unused parameter of a literal outside a
\* generated file has such a line.
C6_LiteralLabel ==
  /\ \A f \in {g \in Analysed : \E l \in Lines : LineFile(l) = g.Path} :
       LET lits == LiteralsOf(f)
       IN  \A l \in Lines : \A c \in lits :
             (LineFile(l) = f.Path /\ LineRow(l) = c.Line /\ LineCol(l) = c.Col)
               => LineLabel(l) = "func"
  /\ Done =>
       \A f \in Analysed : \A c \in LiteralsOf(f) : \A n \in UnreferencedNames(f, c) :
         ~isGenerated(f.Src) => Line(f.Path, c.Line, c.Col, "func", "param", n) \in Lines

\* The two literals of FuncLiteral in pkg1.go were reported.
C6_Witness ==
  /\ Done
  /\ Line("testdata/pkg1/pkg1.go", 19, 5, "func", "param", "x") \in Lines
  /\ Line("testdata/pkg1/pkg1.go", 21, 6, "func", "param", "y") \in Lines

(***************************************************************************)
(* C7  The -ignore flag (checked under SpecIgnore).                        *)
(***************************************************************************)
\* The fields of the receiver and of the parameters of a function node.
FieldsOf(c) ==
  {c.Params[k] : k \in 1..Len(c.Params)}
    \cup (IF c.Node = "FuncDecl" THEN {c.Recv[k] : k \in 1..Len(c.Recv)} ELSE {})

\* The type a field is declared with, as written.
DeclaredType(fld) ==
  IF fld.Type.Expr = "Ellipsis" THEN "..." \o fld.Type.Str ELSE fld.Type.Str

NodeLine(c) == IF c.Node = "FuncDecl" THEN c.Name.Line ELSE c.Line
NodeCol(c) == IF c.Node = "FuncDecl" THEN c.Name.Col ELSE c.Col

\* C7: with the ignore set ignoreTypes, an unused named input is left out of
\* the report if its declared type is in the set and is reported if it is
\* not.
C7_TypeIgnore ==
  Done =>
    \A f \in Analysed :
      \A c \in {FuncNodes(f.Decls)[k] : k \in 1..Len(FuncNodes(f.Decls))} :
        LET unused == UnreferencedNames(f, c)
            reported == ReportedNames(f.Path, NodeLine(c), NodeCol(c))
        IN  \A fld \in FieldsOf(c) : \A k \in 1..Len(fld.Names) :
              (fld.Names[k].Name # "_" /\ fld.Names[k].Name \in unused)
                => (fld.Names[k].Name \in reported <=> DeclaredType(fld) \notin ignoreTypes)

\* pkg1.go was analysed with -ignore int: y int of RegularArgsUnused is left
\* out and s ...string of VarArgsUnused is reported.
C7_Witness ==
  /\ Done
  /\ ignoreTypes = {"int"}
  /\ "testdata/pkg1/pkg1.go" \in DOMAIN contents
  /\ "y" \notin ReportedNames("testdata/pkg1/pkg1.go", 12, 6)
  /\ "s" \in ReportedNames("testdata/pkg1/pkg1.go", 10, 6)

(***************************************************************************)
(* C8  Generated files.                                                    *)
(***************************************************************************)
\* C8: no line of the report is for a function of a generated file, the
\* exit code is set only when a line was written, and a run on generated
\* files alone ends with status 0 and an empty report.
C8_GeneratedExempt ==
  /\ \A l \in Lines : ~isGenerated(FileAt(LineFile(l)).Src)
  /\ exitCode = 1 => output # <<>>
  /\ (Done /\ \A f \in Analysed : isGenerated(f.Src)) => (output = <<>> /\ status = 0)

\* generated.go alone was analysed: its unused inputs are among the
\* results, nothing was reported and the status is 0.
C8_Witness ==
  /\ Done
  /\ files = <<"testdata/pkg1/generated.go">>
  /\ \E r \in AllResults : r.Uses = {} /\ r.Position.Filename = "testdata/pkg1/generated.go"
  /\ output = <<>>
  /\ status = 0

(***************************************************************************)
(* C9  Determinism (checked under SpecTwice).                              *)
(***************************************************************************)
\* C9: a run of the command on the files and flags of the run before it
\* writes the same report.
C9_Deterministic ==
  (run = 2 /\ pc \in {"exited", "fatal"}) => output = prevOutput

(***************************************************************************)
(* C10  Order of the report.                                               *)
(***************************************************************************)
\* Line a is before line b by file path, then line, then column.
LineLess(a, b) ==
  IF LineFile(a) # LineFile(b) THEN StrLess(LineFile(a), LineFile(b))
  ELSE IF LineRow(a) # LineRow(b) THEN LineRow(a) < LineRow(b)
  ELSE LineCol(a) < LineCol(b)

\* The package of the file a line is for.
LinePkg(l) == FileAt(LineFile(l)).Pkg

\* C10, as claimed: the lines of the report, of all packages together, are
\* in non-decreasing order of file path, line and column: no line is before
\* the line written just before it.
C10_GlobalOrder ==
  \A k \in 1..(Len(output) - 1) : ~LineLess(output[k + 1], output[k])

\* C10, amended: the lines of the report are grouped by package, the
\* packages in ascending order of their names, and the lines of one package
\* are in non-decreasing order of file path, line and column.
C10_PackageOrder ==
  \A k \in 1..(Len(output) - 1) :
    IF LinePkg(output[k]) = LinePkg(output[k + 1])
    THEN ~LineLess(output[k + 1], output[k])
    ELSE StrLess(LinePkg(output[k]), LinePkg(output[k + 1]))

\* Lines of two files of one package and lines of two packages were
\* written, a later line being for a file that sorts before an earlier
\* line's.
C10_Witness ==
  /\ Done
  /\ \E k, m \in 1..Len(output) :
       /\ k < m
       /\ LinePkg(output[k]) # LinePkg(output[m])
       /\ LineLess(output[m], output[k])

(***************************************************************************)
(* C11  Rendering.                                                         *)
(***************************************************************************)
\* The result is a finding: no use, and not of a generated file.
Finding(r) == r.Uses = {} /\ ~isGenerated(FileAt(r.Position.Filename).Src)

\* The function nodes of the file at path.
NodesAt(path) ==
  LET nodes == FuncNodes(FileAt(path).Decls)
  IN  {nodes[k] : k \in 1..Len(nodes)}

\* The line names a function node of its file by the node's position, an
\* input the node declares, and the kind the input is declared with.
WellFormedLine(l) ==
  /\ Len(l) = 12
  /\ l = Line(l[1], l[3], l[5], l[7], l[9], l[11])
  /\ \E c \in NodesAt(LineFile(l)) :
       /\ NodeLine(c) = LineRow(l)
       /\ NodeCol(c) = LineCol(l)
       /\ LineLabel(l) = (IF c.Node = "FuncDecl" THEN c.Name.Name ELSE "func")
       /\ LineIdent(l) \in {n.Name : n \in NamedInputs(c)}
       /\ LineKind(l) = (IF c.Node = "FuncDecl"
                            /\ LineIdent(l) \in {n.Name : n \in FieldNames(c.Recv)}
                         THEN "receiver" ELSE "param")

\* C11: the report of a finished run has exactly one line per finding and
\* no other line; each line ends with a newline and has the form
\* file:line:col: label has unused kind name, with the position and the
\* label of the function, the kind receiver or param as declared, and the
\* name of the input.
C11_Rendering ==
  Done =>
    LET findings == {r \in AllResults : Finding(r)}
    IN  /\ Len(output) = Cardinality(findings)
        /\ \A r \in findings : ReportedInput(r)
        /\ \A l \in Lines : WellFormedLine(l) /\ \E r \in findings : IsReportOf(l, r)

\* methods.go was analysed: the receiver r and the parameter a of Two each
\* have their line, at the position of Two.
C11_Witness ==
  /\ Done
  /\ Line("testdata/pkg3/methods.go", 5, 13, "Two", "receiver", "r") \in Lines
  /\ Line("testdata/pkg3/methods.go", 5, 13, "Two", "param", "a") \in Lines

(***************************************************************************)
(* C12  Exit status of a run that was not strict.                          *)
(***************************************************************************)
\* C12: a run without -strict that ended without a fatal error has exit
\* status 1 if a line was written to the report and 0 if none was.
C12_ExitIndicator ==
  (Done /\ ~strict) => status = (IF Len(output) > 0 THEN 1 ELSE 0)

\* A run without -strict wrote a line and ended with status 1.
C12_Witness == Done /\ ~strict /\ Len(output) > 0 /\ status = 1

(***************************************************************************)
(* C13  Skipped files and the exit status.                                 *)
(***************************************************************************)
\* The requested files that cannot be read.
Requested == {files[k] : k \in 1..Len(files)}
Skipped == {p \in Requested : ~FileAt(p).Readable}

\* The line on os.Stderr for a file that was skipped.
SkipLine(p) == <<"skipping: ", "open " \o p, "\n">>
StderrLines == {stderr[k] : k \in 1..Len(stderr)}

ArgKind(arg) ==
  IF arg \in {"testdata", "testdata/pkg2", "testdata/pkg3", "testdata/pkg4", "testdata/pkg5",
              "testdata/pkg2/..."}
  THEN "dir"
  ELSE IF arg \in Paths THEN "file" ELSE "pkg"

ArgKinds == {ArgKind(args[k]) : k \in 1..Len(args)}

Mixed == Cardinality(ArgKinds) > 1

\* C14: when the arguments are of more than one of the kinds directory, file
\* and package, main ends in usage: the help text is all that is written to
\* standard error, the exit status is 2, no file was read, no package was
\* analysed and nothing was reported; and 2 is the exit status of no other
\* run.  Checked under SpecMain.
C14_UsageError ==
  /\ (Mixed /\ pc # "main") =>
       /\ pc = "usage"
       /\ status = 2
       /\ stderr = << <<"help">> >>
       /\ output = <<>>
       /\ files = <<>>
       /\ contents = NoMap
       /\ results = NoMap
       /\ exitCode = 0
  /\ (pc \in {"exited", "fatal"}) => status \in {0, 1}
  /\ status = 2 => Mixed

C14_Witness ==
  /\ pc = "usage"
  /\ status = 2
  /\ args = <<"testdata/pkg2", "nosuch/pkg">>

(***************************************************************************)
(* C15  Packages are kept apart.                                           *)
(***************************************************************************)
\* The findings a file should give: for each function node, the names of
\* its inputs that nothing in the file's own package refers to.
OwnFindings(f) ==
  LET resolved == {u.obj : u \in CheckUses(FilesOfPkg(Analysed, f.Pkg))}
  IN  UNION {{<<f.Path, NodeLine(c), NodeCol(c), n.Name>> :
                n \in {x \in NamedInputs(c) :
                         Position(f.Path, x.Line, x.Col) \notin resolved}} :
               c \in NodesAt(f.Path)}

\* C15: every result of a package is an input declared in a file of that
\* package, with uses only in files of that package, and in a finished run
\* every analysed file has exactly the findings its own package's resolution
\* gives it: inputs of the same name in files of different packages each have
\* their own line.
C15_PackagesApart ==
  /\ \A p \in DOMAIN results :
       LET own == {f.Path : f \in {g \in Analysed : g.Pkg = p}}
       IN  \A k \in 1..Len(results[p]) :
             /\ results[p][k].Position.Filename \in own
             /\ \A u \in results[p][k].Uses : u.Filename \in own
  /\ Done =>
       \A f \in Analysed :
         ~isGenerated(f.Src) =>
           {<<LineFile(l), LineRow(l), LineCol(l), LineIdent(l)>> :
              l \in {x \in Lines : LineFile(x) = f.Path}} = OwnFindings(f)

\* pkg1_test.go of package pkg1 and ext_test.go of package pkg1_test both
\* declare bar(x int) with x unused: each has its line.
C15_Witness ==
  /\ Done
  /\ Line("testdata/pkg1/pkg1_test.go", 3, 6, "bar", "param", "x") \in Lines
  /\ Line("testdata/pkg1/ext_test.go", 3, 6, "bar", "param", "x") \in Lines
  /\ Len(output) = 2

(***************************************************************************)
(* C16  Strict mode.                                                       *)
(***************************************************************************)
\* Some package of the requested files that can be read has a type error.
TypeErrorRequested ==
  \E p \in Requested : FileAt(p).Readable /\ ~FileAt(p).Checks

\* C16: with -strict, a run on a file list with a file that cannot be read
\* or with a type error in a package never ends normally: when it has ended
\* it has ended fatally with status 1, and no file was skipped with a warning
\* and no package was warned about.
C16_StrictFatal ==
  (strict /\ (Skipped # {} \/ TypeErrorRequested)) =>
    /\ pc # "exited"
    /\ pc = "fatal" => status = 1
    /\ \A l \in StderrLines : l[1] = "unusedarg: "

\* With -strict a run on typeerr.go alone, which is read and parsed, ended
\* fatally.
C16_Witness ==
  /\ strict
  /\ pc = "fatal"
  /\ status = 1
  /\ files = <<"testdata/pkg4/typeerr.go">>
  /\ stderr = <<<<"unusedarg: ", "type check error", "\n">>>>

(***************************************************************************)
(* C17  A file that cannot be read, without -strict.                       *)
(***************************************************************************)
\* The findings of a set of files analysed together: for each function node
\* of a file that is not generated, the names of its inputs that nothing in
\* the files of the same package refers to.
FindingsOf(fs) ==
  UNION {LET resolved == {u.obj : u \in CheckUses(FilesOfPkg(fs, f.Pkg))}
         IN  UNION {{<<f.Path, NodeLine(c), NodeCol(c), n.Name>> :
                       n \in {x \in NamedInputs(c) :
                                Position(f.Path, x.Line, x.Col) \notin resolved}} :
                      c \in NodesAt(f.Path)} :
           f \in {g \in fs : ~isGenerated(g.Src)}}

\* The findings the report holds.
ReportedFindings == {<<LineFile(l), LineRow(l), LineCol(l), LineIdent(l)>> : l \in Lines}

\* C17: in a finished run without -strict, each requested file that cannot
\* be read has its skipping line on stderr and is left out of the analysis,
\* and the findings are those of the requested files that can be read,
\* analysed by themselves.
C17_ReadFailure ==
  (Done /\ ~strict) =>
    /\ \A p \in Skipped : SkipLine(p) \in StderrLines
    /\ DOMAIN contents = Requested \ Skipped
    /\ ReportedFindings = FindingsOf({FileAt(p) : p \in Requested \ Skipped})

\* A run without -strict on a file that cannot be read and one that can
\* ended with findings.
C17_Witness ==
  /\ Done
  /\ ~strict
  /\ Skipped # {}
  /\ Requested \ Skipped # {}
  /\ Lines # {}

(***************************************************************************)
(* C18  A file that does not parse, without -strict.                       *)
(***************************************************************************)
\* The requested files that are read and do not parse.
Unparsed == {p \in Requested \ Skipped : ~FileAt(p).Parses}

\* C18: a run without -strict on a file list with a file that does not
\* parse is not aborted: it ends normally, with the findings of the files
\* that do parse.
C18_ParseFailureSkipped ==
  (~strict /\ Unparsed # {} /\ pc \in {"exited", "fatal"}) =>
    /\ pc = "exited"
    /\ ReportedFindings = FindingsOf({FileAt(p) : p \in (Requested \ Skipped) \ Unparsed})

(***************************************************************************)
(* C19  A package that does not type check, without -strict.               *)
(***************************************************************************)
\* The warning for a package on os.Stderr.
WarnLine(pkg) == <<"failed to type check package ", pkg, ": results may be partial", "\n">>

\* The number of times the line l is on os.Stderr.
TimesOnStderr(l) == Cardinality({k \in 1..Len(stderr) : stderr[k] = l})

\* C19: a run without -strict is not aborted by a type error; when it has
\* finished, the warning of each package with a type error is on stderr
\* exactly once and that of any other package is not, and the findings of the
\* files of a package with a type error are in the report.
C19_TypeCheckWarned ==
  /\ (~strict /\ Unparsed = {}) => pc # "fatal"
  /\ (Done /\ ~strict) =>
       /\ \A pkg \in {f.Pkg : f \in Analysed} :
            TimesOnStderr(WarnLine(pkg))
              = (IF \E f \in Analysed : f.Pkg = pkg /\ ~f.Checks THEN 1 ELSE 0)
       /\ \A f \in Analysed :
            (~f.Checks /\ ~isGenerated(f.Src)) => OwnFindings(f) \subseteq ReportedFindings

\* typeerr.go was analysed without -strict: the warning for pkg4 was written
\* once, w of k is reported and v of h, which is used after the undefined
\* name, is not.
C19_Witness ==
  /\ Done
  /\ ~strict
  /\ files = <<"testdata/pkg4/typeerr.go">>
  /\ stderr = <<WarnLine("pkg4")>>
  /\ Lines = {Line("testdata/pkg4/typeerr.go", 5, 6, "k", "param", "w")}

(***************************************************************************)
(* C20  The invariants Find documents.                                     *)
(***************************************************************************)
\* Find has returned without an error.
FindSucceeded == pc \in {"warn", "print", "exited"}

\* The positions at which the functions of the files of package pkg declare
\* a named input that is not blank.
DeclaredInputs(pkg) ==
  UNION {UNION {{Position(f.Path, n.Line, n.Col) : n \in NamedInputs(c)} :
                  c \in NodesAt(f.Path)} :
           f \in {g \in Analysed : g.Pkg = pkg}}

\* C20: when Find has succeeded, results has exactly the package names of the
\* files as keys, also that of a package without any candidate, and the
\* results of a package are as many as the named, non-blank receivers and
\* parameters its files declare, one for each.
C20_FindInvariants ==
  FindSucceeded =>
    /\ DOMAIN results = {f.Pkg : f \in Analysed}
    /\ \A pkg \in DOMAIN results :
         /\ Len(results[pkg]) = Cardinality(DeclaredInputs(pkg))
         /\ {results[pkg][k].Position : k \in 1..Len(results[pkg])} = DeclaredInputs(pkg)

\* none.go, which declares no named input, was analysed with pkg2.go: both
\* packages are keys, pkg5 with no result and pkg2 with one.
C20_Witness ==
  /\ FindSucceeded
  /\ DOMAIN results = {"pkg2", "pkg5"}
  /\ results["pkg5"] = <<>>
  /\ Len(results["pkg2"]) = 1

(***************************************************************************)
(* C21  Listed files of more than one package.                             *)
(***************************************************************************)
\* The package names the listed files declare.
ListedPkgNames == {FileAt(p).Pkg : p \in Requested}

C22_Dispatch ==
  /\ pc # "panic"
  /\ {dirsRun, filesRun, pkgsRun} \subseteq {0, 1}
  /\ (pc \notin {"main", "usage"} /\ args # <<>>) =>
       /\ dirsRun + filesRun + pkgsRun = 1
       /\ branch = (IF dirsRun = 1 THEN "dirs" ELSE IF filesRun = 1 THEN "files" ELSE "pkgs")

C22_Witness ==
  /\ pc = "exited"
  /\ Len(args) > 1
  /\ branch = "pkgs"
  /\ pkgsRun = 1 /\ dirsRun = 0 /\ filesRun = 0

(***************************************************************************)
(* C23  Order within a package and of the packages.                        *)
(***************************************************************************)
\* Position a is before position b by filename, then line, then column.
PositionLess(a, b) ==
  IF a.Filename # b.Filename THEN StrLess(a.Filename, b.Filename)
  ELSE IF a.Line # b.Line THEN a.Line < b.Line
  ELSE a.Column < b.Column

\* C23: the results Find returned for a package are in non-decreasing order
\* of the function's filename, line and column; in the report, a line of a
\* package with a smaller name is never after a line of a package with a
\* greater name, so that the lines of one package are contiguous, and of two
\* lines of one package the later is not for a function at a smaller
\* position.
C23_PerPackageOrder ==
  /\ FindSucceeded =>
       \A pkg \in DOMAIN results :
         \A k \in 1..(Len(results[pkg]) - 1) :
           ~PositionLess(results[pkg][k + 1].FuncPosition, results[pkg][k].FuncPosition)
  /\ \A k, m \in 1..Len(output) :
       k < m =>
         /\ ~StrLess(LinePkg(output[m]), LinePkg(output[k]))
         /\ LinePkg(output[k]) = LinePkg(output[m]) => ~LineLess(output[m], output[k])

\* Lines for two functions of one package were written, and after them a
\* line of another package.
C23_Witness ==
  /\ Done
  /\ \E k, m, n \in 1..Len(output) :
       /\ k < m /\ m < n
       /\ LinePkg(output[k]) = LinePkg(output[m])
       /\ LineLess(output[k], output[m])
       /\ LinePkg(output[m]) # LinePkg(output[n])

(***************************************************************************)
(* C24  The position that is reported.                                     *)
(***************************************************************************)
\* The function nodes of the file at path that declare a named input at
\* position pos.
DeclaringNodes(pos) ==
  {c \in NodesAt(pos.Filename) :
     \E n \in NamedInputs(c) : n.Line = pos.Line /\ n.Col = pos.Column}

WithNamedResult(f) ==
  {c \in NodesAt(f.Path) : c.Node = "FuncDecl" /\ FieldNames(c.Results) # {}}

\* The positions of the named results of the declarations of a file.
ResultPositions(f) ==
  UNION {{Position(f.Path, n.Line, n.Col) : n \in FieldNames(c.Results)} :
           c \in WithNamedResult(f)}

\* C25: a named result of a function is no candidate and is not reported:
\* when Find has succeeded no result is for the position of a named result,
\* and the names reported for a declaration with a named result are names of
\* its receiver and params.
C25_NamedResults ==
  FindSucceeded =>
    \A f \in Analysed :
      /\ \A p \in ResultPositions(f) : \A r \in AllResults : r.Position # p
      /\ \A c \in WithNamedResult(f) :
           ReportedNames(f.Path, c.Name.Line, c.Name.Col)
             \subseteq {n.Name : n \in NamedInputs(c)}

\* NakedReturnUnused was analysed, its param x was reported and its result
\* y, which the body does not refer to, was not.
C25_Witness ==
  /\ Done
  /\ \E f \in Analysed : \E c \in WithNamedResult(f) :
       /\ UsesIn(c.Body, EmptyEnv, f.Path) = {}
       /\ ReportedNames(f.Path, c.Name.Line, c.Name.Col) = {"x"}
       /\ "y" \in {n.Name : n \in FieldNames(c.Results)}

(***************************************************************************)
(* C26  Uses inside nested literals.                                       *)
(***************************************************************************)
\* The names of the identifiers in statements, those of the bodies of
\* function literals left out.
RECURSIVE NamesOutsideLiterals(_)
NamesOutsideLiterals(stmts) ==
  IF stmts = <<>> THEN {}
  ELSE LET s == Head(stmts)
       IN  (CASE s.Node = "Ident" -> {s.Name}
              [] s.Node = "Block" -> NamesOutsideLiterals(s.Body)
              [] OTHER -> {})
             \cup NamesOutsideLiterals(Tail(stmts))

\* The names statements declare or refer to, at any depth.
RECURSIVE NamesDeclared(_)
NamesDeclared(stmts) ==
  IF stmts = <<>> THEN {}
  ELSE LET s == Head(stmts)
       IN  (CASE s.Node = "Var" -> {s.Name}
              [] s.Node = "Block" -> NamesDeclared(s.Body)
              [] s.Node = "FuncLit" ->
                   {n.Name : n \in FieldNames(s.Params)} \cup NamesDeclared(s.Body)
              [] OTHER -> {})
             \cup NamesDeclared(Tail(stmts))

\* The function literals in the body of c.
LiteralsIn(c) ==
  LET lits == FuncLitsIn(c.Body)
  IN  {lits[k] : k \in 1..Len(lits)}

\* The named inputs of c that its body refers to inside a function literal
\* only: the name is not declared again in the body, no identifier outside
\* the literals has it, and an identifier in a literal has it.
UsedOnlyInLiteral(c) ==
  {n \in NamedInputs(c) :
     /\ n.Name \notin NamesDeclared(c.Body)
     /\ n.Name \notin NamesOutsideLiterals(c.Body)
     /\ \E d \in LiteralsIn(c) : n.Name \in NamesOutsideLiterals(d.Body)}

\* C26: when Find has succeeded, an input of a function that is referred to
\* only inside a function literal of its body has a result with uses, and is
\* not reported; an input of a literal has a result of its own, at its own
\* position and with the literal's position as function position, and in a
\* finished run it is reported if and only if that result has no uses and
\* its file is not generated.
C26_NestedLiteralUses ==
  FindSucceeded =>
    LET all == AllResults
    IN  \A f \in Analysed :
          \A c \in NodesAt(f.Path) :
            /\ \A n \in UsedOnlyInLiteral(c) :
                 \E r \in all :
                   /\ r.Position = Position(f.Path, n.Line, n.Col)
                   /\ r.Uses # {}
                   /\ ~ReportedInput(r)
            /\ \A d \in LiteralsIn(c) :
                 \A q \in NamedInputs(d) :
                   \E r \in all :
                     /\ r.Position = Position(f.Path, q.Line, q.Col)
                     /\ r.FuncPosition = Position(f.Path, d.Line, d.Col)
                     /\ Done => (ReportedInput(r) <=> (r.Uses = {} /\ ~isGenerated(f.Src)))

\* A function with an input referred to only inside a literal was analysed,
\* the input was not reported and the unused input of the literal was.
C26_Witness ==
  /\ Done
  /\ \E f \in Analysed : \E c \in NodesAt(f.Path) :
       /\ UsedOnlyInLiteral(c) # {}
       /\ \E d \in LiteralsIn(c) : \E q \in NamedInputs(d) :
            q.Name \in ReportedNames(f.Path, d.Line, d.Col)
       /\ ReportedNames(f.Path, NodeLine(c), NodeCol(c)) = {}

(***************************************************************************)
(* C27  With -strict, a type error ends the run before the report.         *)
(***************************************************************************)
\* C27: with -strict, while the files handleFiles was called with have a
\* type error, handleFiles is reading, in Find, at the warnings or has ended
\* the process with status 1, and no line of the report is for one of these
\* files; and a step of the command never changes a line that was written.
\* Checked under SpecMain.
C27_StrictBeforeReport ==
  /\ []((strict /\ TypeErrorRequested) =>
          /\ pc \in {"read", "find", "warn", "fatal"}
          /\ pc = "fatal" => status = 1
          /\ \A l \in Lines : LineFile(l) \notin Requested)
  /\ [][Len(output') >= Len(output) /\ SubSeq(output', 1, Len(output)) = output]_vars

\* A strict run reported the findings of a first target and was ended by the
\* type error of a later one.
C27_Witness ==
  /\ strict
  /\ TypeErrorRequested
  /\ pc = "fatal"
  /\ output # <<>>

(***************************************************************************)
(* C28  The exit code over the targets of one run.                         *)
(***************************************************************************)
\* C28: over the targets of one run the exit code is 0 or 1, it is 1 exactly
\* when a line of the report has been written, a run that ends normally ends
\* with it as status, and no step of the command lowers it: a later target
\* without findings, or without Go files, leaves it at 1.  Checked under
\* SpecMain.
C28_StickyExitCode ==
  /\ [](/\ exitCode \in {0, 1}
        /\ exitCode = 1 <=> output # <<>>
        /\ pc = "exited" => status = exitCode)
  /\ [][exitCode' >= exitCode]_vars

\* A run on a directory with a finding and then on a directory whose package
\* has none ended with status 1.
C28_Witness ==
  /\ pc = "exited"
  /\ args = <<"testdata/pkg2", "testdata/pkg5">>
  /\ files = <<"testdata/pkg5/none.go">>
  /\ status = 1

====
